---- MODULE Spec2Model ----
(***************************************************************************)
(* Model of the DarkMode class of src/src/lib/dark-mode.svelte.ts: the     *)
(* explicit user choice (#modeStore), the mirrored system preference       *)
(* (#prefersStore), the resolved mode, the markers on the document's root  *)
(* element and the 'dark-mode' entry of localStorage.                      *)
(*                                                                         *)
(* JavaScript values: a ThemeMode is "light", "dark" or undefined; the     *)
(* content of a localStorage entry is a string, modelled as a sequence of  *)
(* one-character strings so that toLowerCase and === act on its            *)
(* characters; getItem yields null for a missing key.                      *)
(***************************************************************************)
EXTENDS Naturals, Sequences, FiniteSets

VARIABLES
    DEV,            \* esm-env DEV flag of the build
    BROWSER,        \* esm-env BROWSER flag of the build
    modeStore,      \* DarkMode.#modeStore: the user's explicit choice
    prefersStore,   \* DarkMode.#prefersStore: the mirrored system preference
    localStorage,   \* key -> entry; an entry is null or a string
    documentElement,\* root element: the 'dark' class token and style.colorScheme
    matchesDark,    \* matchMedia('(prefers-color-scheme: dark)').matches
    matchesLight,   \* matchMedia('(prefers-color-scheme: light)').matches
    listening,      \* the 'change' listener of the constructor is registered
    replaced,       \* the instance this one replaced in the same page, if any
    lastOp,         \* history: the operation executed last on the instance
    lastArg,        \* history: its argument (setter value, e.matches)
    prevOp,         \* history: the operation executed before lastOp
    before,         \* history: mode, #modeStore, #prefersStore right before lastOp
    beforePrev,     \* history: the same right before prevOp
    lastWrite,      \* history: the last setter/toggle call, on this or an earlier instance
    reported        \* history: what the environment last told the instance: the
                    \* two booleans of the initial read, or e.matches of an event

vars == << DEV, BROWSER, modeStore, prefersStore, localStorage, documentElement,
           matchesDark, matchesLight, listening, replaced,
           lastOp, lastArg, prevOp, before, beforePrev, lastWrite, reported >>

progVars == << modeStore, prefersStore, localStorage, documentElement, replaced >>
histVars == << lastOp, lastArg, prevOp, before, beforePrev, lastWrite, reported >>

----------------------------------------------------------------------------
(* JavaScript values *)

undefined == "undefined"

ThemeMode == {"light", "dark", undefined}

\* a ?? b
Coalesce(a, b) == IF a = undefined THEN b ELSE a

\* a string literal as its characters
S_light == << "l", "i", "g", "h", "t" >>
S_dark == << "d", "a", "r", "k" >>

\* the string a 'light' | 'dark' value is, as written by setItem
StringOf(m) == IF m = "light" THEN S_light ELSE S_dark

UpperChars == << "A", "B", "C", "D", "E", "F", "G", "H", "I", "J", "K", "L", "M",
                 "N", "O", "P", "Q", "R", "S", "T", "U", "V", "W", "X", "Y", "Z" >>
LowerChars == << "a", "b", "c", "d", "e", "f", "g", "h", "i", "j", "k", "l", "m",
                 "n", "o", "p", "q", "r", "s", "t", "u", "v", "w", "x", "y", "z" >>

LowerChar(c) ==
    IF \E i \in DOMAIN UpperChars : UpperChars[i] = c
    THEN LowerChars[CHOOSE i \in DOMAIN UpperChars : UpperChars[i] = c]
    ELSE c

\* String.prototype.toLowerCase
toLowerCase(s) == [i \in DOMAIN s |-> LowerChar(s[i])]

----------------------------------------------------------------------------
(* localStorage: getItem / setItem / removeItem *)

Key == "dark-mode"
Keys == {Key}

null == [isNull |-> TRUE, str |-> << >>]
Str(s) == [isNull |-> FALSE, str |-> s]

getItem(ls, k) == ls[k]
setItem(ls, k, s) == [ls EXCEPT ![k] = Str(s)]
removeItem(ls, k) == [ls EXCEPT ![k] = null]

\* if (x) on a string | null: null and '' are falsy
Truthy(item) == ~item.isNull /\ Len(item.str) > 0

\* what the entry may hold when the page is first opened
InitialItems ==
    { null,
      Str(S_light), Str(S_dark),
      Str(<< "D", "A", "R", "K" >>), Str(<< "L", "i", "g", "h", "t" >>),
      Str(<< "i", "n", "v", "a", "l", "i", "d" >>),
      Str(<< >>),
      Str(<< "n", "u", "l", "l" >>) }

----------------------------------------------------------------------------
(* DarkMode: the pure parts of its methods *)

\* mutation: the default is dark
defaultMode_Dark == "dark"

\* #defaultMode
defaultMode == "light"

isBrowserOf(dev, browser) == IF dev THEN TRUE ELSE browser

isBrowser == isBrowserOf(DEV, BROWSER)

\* mutation: the system preference is consulted before the explicit choice
getMode_PrefersFirst(ms, ps) == Coalesce(Coalesce(ps, ms), defaultMode)

\* mutation: no fall back to the default mode
getMode_NoDefault(ms, ps) == Coalesce(ms, ps)

\* get mode(): this.#modeStore ?? this.#prefersStore ?? this.#defaultMode
getMode(ms, ps) == Coalesce(Coalesce(ms, ps), defaultMode)

mode == getMode(modeStore, prefersStore)

\* mutation: the light query is tested first
getPrefersMode_LightFirst(ib, md, ml) ==
    IF ~ib THEN undefined
    ELSE IF ml THEN "light"
    ELSE IF md THEN "dark"
    ELSE undefined

getPrefersMode(ib, md, ml) ==
    IF ~ib THEN undefined
    ELSE IF md THEN "dark"
    ELSE IF ml THEN "light"
    ELSE undefined

\* mutation: whatever is not 'dark' is taken as 'light'
load_UnknownIsLight(ib, ls) ==
    IF ~ib THEN undefined
    ELSE LET localStoreItem == getItem(ls, Key) IN
         IF Truthy(localStoreItem)
         THEN LET lowered == toLowerCase(localStoreItem.str) IN
              IF lowered = S_dark THEN "dark" ELSE "light"
         ELSE undefined

\* mutation: the item is compared without toLowerCase()
load_CaseSensitive(ib, ls) ==
    IF ~ib THEN undefined
    ELSE LET localStoreItem == getItem(ls, Key) IN
         IF Truthy(localStoreItem)
         THEN IF localStoreItem.str = S_light THEN "light"
              ELSE IF localStoreItem.str = S_dark THEN "dark"
              ELSE undefined
         ELSE undefined

load(ib, ls) ==
    IF ~ib THEN undefined
    ELSE LET localStoreItem == getItem(ls, Key) IN
         IF Truthy(localStoreItem)
         THEN LET lowered == toLowerCase(localStoreItem.str) IN
              IF lowered = S_light THEN "light"
              ELSE IF lowered = S_dark THEN "dark"
              ELSE undefined
         ELSE undefined

\* mutation: a saved 'light' is not recognised
getInitialMode_DropsLight(ib, ls) ==
    LET saved == load(ib, ls) IN
    IF saved = "dark" THEN "dark" ELSE undefined

getInitialMode(ib, ls) ==
    LET saved == load(ib, ls) IN
    IF saved # undefined
    THEN IF saved = "light" THEN "light"
         ELSE IF saved = "dark" THEN "dark"
         ELSE undefined
    ELSE undefined

\* mutation: no isBrowser guard
updateDOM_NoGuard(ib, ms, ps, el) ==
    LET isDark == (getMode(ms, ps) = "dark") IN
    [classDark |-> isDark,
     colorScheme |-> IF isDark THEN "dark" ELSE "light"]

\* mutation: classList.toggle('dark') without the force argument
updateDOM_ToggleNoForce(ib, ms, ps, el) ==
    IF ~ib THEN el
    ELSE LET isDark == (getMode(ms, ps) = "dark") IN
         [classDark |-> ~el.classDark,
          colorScheme |-> IF isDark THEN "dark" ELSE "light"]

\* the root element after updateDOM()
updateDOM(ib, ms, ps, el) ==
    IF ~ib THEN el
    ELSE LET isDark == (getMode(ms, ps) = "dark") IN
         [classDark |-> isDark,
          colorScheme |-> IF isDark THEN "dark" ELSE "light"]

\* mutation: the entry is not removed when the choice is reset
store_KeepsOnUnset(ib, ms, ls) ==
    IF ~ib THEN ls
    ELSE IF ms = "light" \/ ms = "dark"
         THEN setItem(ls, Key, StringOf(ms))
         ELSE ls

\* localStorage after store()
store(ib, ms, ls) ==
    IF ~ib THEN ls
    ELSE IF ms = "light" \/ ms = "dark"
         THEN setItem(ls, Key, StringOf(ms))
         ELSE removeItem(ls, Key)

\* mutation: the branch for an unset choice is missing
toggleStore_NoUnsetBranch(ms) ==
    IF ms = "light" THEN "dark"
    ELSE IF ms = "dark" THEN "light"
    ELSE ms

\* mutation: the dark branch assigns 'dark' again
toggleStore_DarkStays(ms) ==
    IF ms = "light" THEN "dark"
    ELSE IF ms = "dark" THEN "dark"
    ELSE IF ms = undefined /\ defaultMode = "light" THEN "dark"
    ELSE ms

\* mutation: an unset choice is toggled to the default mode
toggleStore_UnsetToDefault(ms) ==
    IF ms = "light" THEN "dark"
    ELSE IF ms = "dark" THEN "light"
    ELSE defaultMode

\* #modeStore after the branches of toggle()
toggleStore(ms) ==
    IF ms = "light" THEN "dark"
    ELSE IF ms = "dark" THEN "light"
    ELSE IF ms = undefined /\ defaultMode = "light" THEN "dark"
    ELSE ms

\* mutation: the two arms of the conditional are swapped
onChange_Swapped(eMatches) == IF eMatches THEN "light" ELSE "dark"

\* mutation: no preference is recorded when the dark query stops matching
onChange_UndefinedWhenNotDark(eMatches) == IF eMatches THEN "dark" ELSE undefined

\* #prefersStore after the change listener: e.matches ? 'dark' : 'light'
onChange(eMatches) == IF eMatches THEN "dark" ELSE "light"

----------------------------------------------------------------------------
(* Operations *)

\* a fresh document's root element, before any script ran
FreshElements ==
    [classDark : BOOLEAN, colorScheme : {"", "light", "dark"}]

\* field initialisers and constructor body, over the environment given
Construct(dev, browser, ls, md, ml, el) ==
    LET ib == isBrowserOf(dev, browser)
        ms == getInitialMode(ib, ls)
        ps == getPrefersMode(ib, md, ml)
    IN  /\ modeStore' = ms
        /\ prefersStore' = ps
        /\ documentElement' = updateDOM(ib, ms, ps, el)
        /\ listening' = ib

\* An instance replaced by a module re-import stays alive with its listener:
\* its two stores, and whether its listener is registered.  No call is made
\* on it any more; only its listener still runs.
NoInstance ==
    [exists |-> FALSE, listening |-> FALSE,
     modeStore |-> undefined, prefersStore |-> undefined]

ThisInstance ==
    [exists |-> TRUE, listening |-> listening,
     modeStore |-> modeStore, prefersStore |-> prefersStore]

\* the replaced instance after its listener received e.matches
Notified(r, eMatches) ==
    IF r.listening THEN [r EXCEPT !.prefersStore = onChange(eMatches)] ELSE r

\* the root element after the updateDOM() of the replaced instance's listener
ReplacedUpdateDOM(r, eMatches, el) ==
    IF r.listening
    THEN updateDOM(TRUE, r.modeStore, onChange(eMatches), el)
    ELSE el

NoSnapshot == [mode |-> "-", modeStore |-> "-", prefersStore |-> "-"]

\* history: nothing was read (no display context), the booleans the two media
\* queries answered in getPrefersMode(), the e.matches the listener received
NothingReported == [kind |-> "none", dark |-> FALSE, light |-> FALSE]
ReadReported(md, ml) == [kind |-> "read", dark |-> md, light |-> ml]
EventReported(eMatches) == [kind |-> "event", dark |-> eMatches, light |-> FALSE]

ReportedAtConstruction(ib, md, ml) ==
    IF ib THEN ReadReported(md, ml) ELSE NothingReported

Init ==
    /\ DEV \in BOOLEAN
    /\ BROWSER \in BOOLEAN
    /\ localStorage \in [Keys -> InitialItems]
    /\ matchesDark \in BOOLEAN
    /\ matchesLight \in BOOLEAN
    /\ \E el \in FreshElements :
        LET ib == isBrowserOf(DEV, BROWSER)
            ms == getInitialMode(ib, localStorage)
            ps == getPrefersMode(ib, matchesDark, matchesLight)
        IN  /\ modeStore = ms
            /\ prefersStore = ps
            /\ documentElement = updateDOM(ib, ms, ps, el)
            /\ listening = ib
    /\ replaced = NoInstance
    /\ lastOp = "construct"
    /\ lastArg = "-"
    /\ prevOp = "-"
    /\ before = NoSnapshot
    /\ beforePrev = NoSnapshot
    /\ lastWrite = "none"
    /\ reported = ReportedAtConstruction(isBrowserOf(DEV, BROWSER), matchesDark, matchesLight)

Snapshot == [mode |-> mode, modeStore |-> modeStore, prefersStore |-> prefersStore]

Record(op, arg) ==
    /\ lastOp' = op
    /\ lastArg' = arg
    /\ prevOp' = lastOp
    /\ before' = Snapshot
    /\ beforePrev' = before

\* mutation: the setter does not call store()
SetMode_NoStore(m) ==
    /\ modeStore' = m
    /\ documentElement' = updateDOM(isBrowser, m, prefersStore, documentElement)
    /\ Record("set", m)
    /\ lastWrite' = "set"
    /\ UNCHANGED << DEV, BROWSER, prefersStore, localStorage,
                    matchesDark, matchesLight, listening, replaced, reported >>

\* set mode(mode)
SetMode(m) ==
    /\ modeStore' = m
    /\ documentElement' = updateDOM(isBrowser, m, prefersStore, documentElement)
    /\ localStorage' = store(isBrowser, m, localStorage)
    /\ Record("set", m)
    /\ lastWrite' = "set"
    /\ UNCHANGED << DEV, BROWSER, prefersStore, matchesDark, matchesLight, listening,
                    replaced, reported >>

\* mutation: store() runs before the assignment of the new value
Toggle_StoresFirst ==
    LET ms == toggleStore(modeStore) IN
    /\ localStorage' = store(isBrowser, modeStore, localStorage)
    /\ modeStore' = ms
    /\ documentElement' = updateDOM(isBrowser, ms, prefersStore, documentElement)
    /\ Record("toggle", "-")
    /\ lastWrite' = "toggle"
    /\ UNCHANGED << DEV, BROWSER, prefersStore, matchesDark, matchesLight, listening,
                    replaced, reported >>

\* toggle()
Toggle ==
    LET ms == toggleStore(modeStore) IN
    /\ modeStore' = ms
    /\ documentElement' = updateDOM(isBrowser, ms, prefersStore, documentElement)
    /\ localStorage' = store(isBrowser, ms, localStorage)
    /\ Record("toggle", "-")
    /\ lastWrite' = "toggle"
    /\ UNCHANGED << DEV, BROWSER, prefersStore, matchesDark, matchesLight, listening,
                    replaced, reported >>

\* mutation: the listener does not call updateDOM()
PrefersChange_NoUpdateDOM(md, ml) ==
    /\ listening
    /\ matchesDark' = md
    /\ matchesLight' = ml
    /\ prefersStore' = onChange(md)
    /\ Record("change", IF md THEN "true" ELSE "false")
    /\ reported' = EventReported(md)
    /\ replaced' = Notified(replaced, md)
    /\ UNCHANGED << DEV, BROWSER, modeStore, localStorage, documentElement,
                    listening, lastWrite >>

\* mutation: the listener drops the event while an explicit choice is set
PrefersChange_IgnoredWhenExplicit(md, ml) ==
    /\ listening
    /\ matchesDark' = md
    /\ matchesLight' = ml
    /\ prefersStore' = IF modeStore = undefined THEN onChange(md) ELSE prefersStore
    /\ documentElement' =
           updateDOM(isBrowser, modeStore, prefersStore', documentElement)
    /\ Record("change", IF md THEN "true" ELSE "false")
    /\ reported' = EventReported(md)
    /\ replaced' = Notified(replaced, md)
    /\ UNCHANGED << DEV, BROWSER, modeStore, localStorage, listening, lastWrite >>

\* mutation: the listener assigns through the setter, which persists
PrefersChange_ViaSetter(md, ml) ==
    /\ listening
    /\ matchesDark' = md
    /\ matchesLight' = ml
    /\ prefersStore' = onChange(md)
    /\ modeStore' = onChange(md)
    /\ documentElement' = updateDOM(isBrowser, onChange(md), onChange(md), documentElement)
    /\ localStorage' = store(isBrowser, onChange(md), localStorage)
    /\ Record("change", IF md THEN "true" ELSE "false")
    /\ reported' = EventReported(md)
    /\ replaced' = Notified(replaced, md)
    /\ UNCHANGED << DEV, BROWSER, listening, lastWrite >>

\* mutation: the listener is registered with { once: true }
PrefersChange_Once(md, ml) ==
    /\ listening
    /\ matchesDark' = md
    /\ matchesLight' = ml
    /\ prefersStore' = onChange(md)
    /\ documentElement' =
           updateDOM(isBrowser, modeStore, onChange(md),
                     ReplacedUpdateDOM(replaced, md, documentElement))
    /\ Record("change", IF md THEN "true" ELSE "false")
    /\ reported' = EventReported(md)
    /\ replaced' = Notified(replaced, md)
    /\ listening' = FALSE
    /\ UNCHANGED << DEV, BROWSER, modeStore, localStorage, lastWrite >>

\* The system preference changes and the 'change' event of the dark query is
\* delivered, with e.matches = md, to the listeners in the order they were
\* registered: that of a replaced instance, then that of this instance.
PrefersChange(md, ml) ==
    /\ listening
    /\ matchesDark' = md
    /\ matchesLight' = ml
    /\ prefersStore' = onChange(md)
    /\ documentElement' =
           updateDOM(isBrowser, modeStore, onChange(md),
                     ReplacedUpdateDOM(replaced, md, documentElement))
    /\ Record("change", IF md THEN "true" ELSE "false")
    /\ reported' = EventReported(md)
    /\ replaced' = Notified(replaced, md)
    /\ UNCHANGED << DEV, BROWSER, modeStore, localStorage, listening, lastWrite >>

\* The system preference changes and no event reaches the instance: no
\* listener is registered, or the dark query keeps its value.
PrefersChangeSilent(md, ml) ==
    /\ ~listening \/ md = matchesDark
    /\ << md, ml >> # << matchesDark, matchesLight >>
    /\ matchesDark' = md
    /\ matchesLight' = ml
    /\ UNCHANGED << DEV, BROWSER, progVars, listening, histVars >>

\* mutation: the constructor calls store() after reading the entry
Reload_Stores(el) ==
    /\ Construct(DEV, BROWSER, localStorage, matchesDark, matchesLight, el)
    /\ localStorage' = store(isBrowser, modeStore', localStorage)
    /\ Record("construct", "-")
    /\ reported' = ReportedAtConstruction(isBrowser, matchesDark, matchesLight)
    /\ replaced' = NoInstance
    /\ UNCHANGED << DEV, BROWSER, matchesDark, matchesLight, lastWrite >>

\* The page is reloaded: a fresh document, no listener of the old page, the
\* same localStorage and system preference; the module is evaluated again.
Reload(el) ==
    /\ Construct(DEV, BROWSER, localStorage, matchesDark, matchesLight, el)
    /\ Record("construct", "-")
    /\ reported' = ReportedAtConstruction(isBrowser, matchesDark, matchesLight)
    /\ replaced' = NoInstance
    /\ UNCHANGED << DEV, BROWSER, localStorage, matchesDark, matchesLight, lastWrite >>

\* The module is evaluated again in the same page (vi.resetModules() and a
\* new import): a new instance over the same document, localStorage and
\* system preference.  The instance it replaces is not told: its listener
\* stays registered.  (Of instances replaced earlier the model keeps none.)
Reimport ==
    /\ Construct(DEV, BROWSER, localStorage, matchesDark, matchesLight, documentElement)
    /\ replaced' = ThisInstance
    /\ Record("construct", "-")
    /\ reported' = ReportedAtConstruction(isBrowser, matchesDark, matchesLight)
    /\ UNCHANGED << DEV, BROWSER, localStorage, matchesDark, matchesLight, lastWrite >>

Next ==
    \/ \E m \in ThemeMode : SetMode(m)
    \/ Toggle
    \/ \E md \in BOOLEAN, ml \in BOOLEAN : PrefersChange(md, ml)
    \/ \E md \in BOOLEAN, ml \in BOOLEAN : PrefersChangeSilent(md, ml)
    \/ \E el \in FreshElements : Reload(el)
    \/ Reimport

Spec == Init /\ [][Next]_vars

----------------------------------------------------------------------------
(* Properties *)

entry == getItem(localStorage, Key)

Opposite(m) == IF m = "dark" THEN "light" ELSE "dark"

\* the markers the root element carries for a resolved mode
Markers(m) == [classDark |-> (m = "dark"), colorScheme |-> m]

\* C1: in every reachable state the getter's value is light or dark, and it is
\* the explicit choice if that is set, else the system preference if that is
\* set, else light.
C1_ModePrecedence ==
    /\ mode \in {"light", "dark"}
    /\ modeStore # undefined => mode = modeStore
    /\ modeStore = undefined /\ prefersStore # undefined => mode = prefersStore
    /\ modeStore = undefined /\ prefersStore = undefined => mode = "light"

\* the setter reset the choice where no system preference is known: the default
C1_Witness ==
    /\ lastOp = "set"
    /\ before.modeStore = "dark"
    /\ modeStore = undefined
    /\ prefersStore = undefined
    /\ mode = "light"

\* C2 as claimed: from every starting state toggle() leaves the opposite of
\* the resolved mode, with the effect of the setter call
\* mode = (mode === 'dark' ? 'light' : 'dark').
C2_ToggleFlipsResolved ==
    [][Toggle =>
        LET target == Opposite(mode) IN
        /\ mode' = target
        /\ modeStore' = target
        /\ documentElement' = updateDOM(isBrowser, target, prefersStore, documentElement)
        /\ localStorage' = store(isBrowser, target, localStorage)]_vars

\* C2, amended: toggle() leaves the opposite of the resolved mode, with the
\* effect of the setter call on it, from every starting state but the one with
\* the explicit choice unset and the system preference dark; from that state it
\* has the effect of the setter call mode = 'dark' and the resolved mode stays
\* dark.
C2_ToggleFlipsUnlessUnsetOverDark ==
    [][Toggle =>
        LET target == IF modeStore = undefined /\ prefersStore = "dark"
                      THEN "dark"
                      ELSE Opposite(mode)
        IN
        /\ mode' = target
        /\ modeStore' = target
        /\ prefersStore' = prefersStore
        /\ documentElement' = updateDOM(isBrowser, target, prefersStore, documentElement)
        /\ localStorage' = store(isBrowser, target, localStorage)]_vars

\* toggle() on an unset choice over a light system preference flipped to dark
C2_Witness ==
    /\ lastOp = "toggle"
    /\ isBrowser
    /\ before.modeStore = undefined
    /\ before.prefersStore = "light"
    /\ before.mode = "light"
    /\ mode = "dark"
    /\ documentElement = Markers("dark")
    /\ entry = Str(S_dark)

\* C3 as claimed: after two consecutive toggle() calls the resolved mode is
\* what it was before the first one.
C3_TwoTogglesRestore ==
    lastOp = "toggle" /\ prevOp = "toggle" => mode = beforePrev.mode

\* C3, amended: two consecutive toggle() calls restore the resolved mode from
\* every starting state but the one with the explicit choice unset and the
\* system preference dark; from that state (resolved mode dark) they end in
\* light.
C3_TwoTogglesRestoreUnlessUnsetOverDark ==
    lastOp = "toggle" /\ prevOp = "toggle" =>
        IF beforePrev.modeStore = undefined /\ beforePrev.prefersStore = "dark"
        THEN beforePrev.mode = "dark" /\ mode = "light"
        ELSE mode = beforePrev.mode

\* two toggles from an unset choice with no system preference: light again
C3_Witness ==
    /\ lastOp = "toggle"
    /\ prevOp = "toggle"
    /\ beforePrev.modeStore = undefined
    /\ beforePrev.prefersStore = undefined
    /\ beforePrev.mode = "light"
    /\ before.mode = "dark"
    /\ mode = "light"

\* C4: with a display context, after mode = 'dark' the getter returns dark and
\* the entry is 'dark'; after mode = 'light' the getter returns light and the
\* entry is 'light'; after mode = undefined the entry is absent and the getter
\* returns the system preference held, or light if none is held.
C4_SetterRoundTrip ==
    lastOp = "set" /\ isBrowser =>
        /\ lastArg = "dark" => mode = "dark" /\ entry = Str(S_dark)
        /\ lastArg = "light" => mode = "light" /\ entry = Str(S_light)
        /\ lastArg = undefined =>
            /\ entry = null
            /\ prefersStore # undefined => mode = prefersStore
            /\ prefersStore = undefined => mode = "light"

\* the choice dark, persisted as 'dark', was reset over a light system
\* preference: the entry is gone and the mode is light
C4_Witness ==
    /\ lastOp = "set"
    /\ isBrowser
    /\ lastArg = undefined
    /\ before.modeStore = "dark"
    /\ lastWrite = "set"
    /\ prefersStore = "light"
    /\ entry = null
    /\ mode = "light"

\* C5: with a display context, between operations the root element has the
\* 'dark' class exactly when the resolved mode is dark and its color-scheme
\* style is the resolved mode.
C5_MarkersFollowMode ==
    isBrowser =>
        /\ documentElement.classDark <=> (mode = "dark")
        /\ documentElement.colorScheme = mode
        /\ documentElement.classDark <=> (documentElement.colorScheme = "dark")

\* a notification turned an unset choice dark and the markers followed
C5_Witness ==
    /\ isBrowser
    /\ lastOp = "change"
    /\ before.mode = "light"
    /\ mode = "dark"
    /\ documentElement.classDark
    /\ documentElement.colorScheme = "dark"

\* C6 as claimed, read where the store is read and written (with a display
\* context): in every reachable state the entry is absent exactly when the
\* explicit choice is unset, and when present it holds the explicit choice.
C6_EntryIsChoice ==
    isBrowser =>
        /\ entry = null <=> modeStore = undefined
        /\ entry # null => entry = Str(StringOf(modeStore))

\* the contents store() writes
Canonical == {null, Str(S_light), Str(S_dark)}

\* C6, amended: with a display context, in every state reached after a setter
\* or toggle() call, and in every state where the entry is absent or exactly
\* 'light' or 'dark', the entry is absent exactly when the explicit choice is
\* unset and otherwise holds the explicit choice; and once a setter or toggle()
\* was called the entry is absent, 'light' or 'dark'.
C6_EntryIsChoiceOnceWritten ==
    isBrowser =>
        /\ lastWrite # "none" => entry \in Canonical
        /\ entry \in Canonical =>
            /\ entry = null <=> modeStore = undefined
            /\ entry # null => entry = Str(StringOf(modeStore))

\* the choice dark was set to light and then reset: 'light' was written and
\* then removed
C6_Witness ==
    /\ isBrowser
    /\ lastOp = "set"
    /\ prevOp = "set"
    /\ beforePrev.modeStore = "dark"
    /\ before.modeStore = "light"
    /\ modeStore = undefined
    /\ entry = null

\* C7: while the explicit choice is unset, a notification makes the resolved
\* mode and the markers those of the reported value; when the dark query goes
\* from false to true the mode goes from light to dark, and back to light when
\* it goes from true to false.
C7_UnsetFollowsNotification ==
    [][\A md \in BOOLEAN, ml \in BOOLEAN :
        PrefersChange(md, ml) /\ modeStore = undefined =>
            /\ modeStore' = undefined
            /\ mode' = IF md THEN "dark" ELSE "light"
            /\ documentElement' = Markers(IF md THEN "dark" ELSE "light")
            /\ ~matchesDark /\ md => mode = "light" /\ mode' = "dark"
            /\ matchesDark /\ ~md => mode = "dark" /\ mode' = "light"]_vars

\* two successive notifications on an unset choice: light, dark, light
C7_Witness ==
    /\ lastOp = "change"
    /\ prevOp = "change"
    /\ modeStore = undefined
    /\ beforePrev.mode = "light"
    /\ before.mode = "dark"
    /\ lastArg = "false"
    /\ mode = "light"
    /\ documentElement = Markers("light")

\* C8: while the explicit choice is light or dark, a notification changes
\* neither the resolved mode nor the markers, which are those of the choice.
C8_ExplicitWinsOverNotification ==
    [][\A md \in BOOLEAN, ml \in BOOLEAN :
        PrefersChange(md, ml) /\ modeStore # undefined =>
            /\ modeStore' = modeStore
            /\ mode = modeStore
            /\ mode' = modeStore
            /\ documentElement = Markers(modeStore)
            /\ documentElement' = Markers(modeStore)]_vars

\* the choice is light and the system preference was reported dark
C8_Witness ==
    /\ lastOp = "change"
    /\ lastArg = "true"
    /\ modeStore = "light"
    /\ prefersStore = "dark"
    /\ mode = "light"
    /\ documentElement = Markers("light")

\* C9: with a display context and a setter or toggle() call made, an instance
\* constructed over the same store starts with the mode X if the explicit
\* choice was left at X in {light, dark}, whatever the system preference; if it
\* was left unset, it starts with the system preference it reads, or light.
C9_ChoiceSurvivesReload ==
    [][\A el \in FreshElements :
        Reload(el) /\ isBrowser /\ lastWrite # "none" =>
            /\ modeStore \in {"light", "dark"} =>
                modeStore' = modeStore /\ mode' = modeStore
            /\ modeStore = undefined =>
                /\ modeStore' = undefined
                /\ mode' = Coalesce(prefersStore', "light")
                /\ matchesDark => mode' = "dark"
                /\ ~matchesDark => mode' = "light"]_vars

\* the choice was set to light, the page reloaded under a dark system
\* preference: the new instance starts light
C9_Witness ==
    /\ isBrowser
    /\ lastOp = "construct"
    /\ prevOp = "set"
    /\ lastWrite = "set"
    /\ before.modeStore = "light"
    /\ matchesDark
    /\ prefersStore = "dark"
    /\ mode = "light"

\* C10: after toggle() the explicit choice is light or dark, and with a
\* display context the entry is present and holds it.
C10_ToggleLeavesChoice ==
    lastOp = "toggle" =>
        /\ modeStore \in {"light", "dark"}
        /\ isBrowser => entry # null /\ entry = Str(StringOf(modeStore))

\* toggle() on an unset choice, no entry before: the choice is dark and written
C10_Witness ==
    /\ lastOp = "toggle"
    /\ isBrowser
    /\ lastWrite = "toggle"
    /\ prevOp = "set"
    /\ before.modeStore = undefined
    /\ modeStore = "dark"
    /\ entry = Str(S_dark)

\* a stored string that is the word w up to the case of its letters
FoldsTo(item, w) ==
    /\ ~item.isNull
    /\ Len(item.str) = Len(w)
    /\ \A i \in 1..Len(w) :
          \/ item.str[i] = w[i]
          \/ \E k \in DOMAIN UpperChars : item.str[i] = UpperChars[k] /\ w[i] = LowerChars[k]

Recognised(item) == FoldsTo(item, S_light) \/ FoldsTo(item, S_dark)

S_invalid == << "i", "n", "v", "a", "l", "i", "d" >>
S_null == << "n", "u", "l", "l" >>

\* C11: an instance constructed over an entry that is present and is neither
\* light nor dark up to case ('invalid', '', 'null', ...) has the explicit
\* choice unset, as one constructed over no entry, and so the resolved mode
\* (system preference, else light) and the markers of that instance.
C11_MalformedAsAbsent ==
    lastOp = "construct" /\ ~entry.isNull /\ ~Recognised(entry) =>
        /\ {Str(S_invalid), Str(<< >>), Str(S_null)} \subseteq
              {i \in InitialItems : ~i.isNull /\ ~Recognised(i)}
        /\ modeStore = undefined
        /\ modeStore = getInitialMode(isBrowser, removeItem(localStorage, Key))
        /\ mode = getMode(getInitialMode(isBrowser, removeItem(localStorage, Key)),
                          prefersStore)
        /\ prefersStore # undefined => mode = prefersStore
        /\ prefersStore = undefined => mode = "light"
        /\ isBrowser => documentElement = Markers(mode)

\* constructed over 'invalid' under a dark system preference: dark, unset
C11_Witness ==
    /\ lastOp = "construct"
    /\ isBrowser
    /\ entry = Str(S_invalid)
    /\ modeStore = undefined
    /\ prefersStore = "dark"
    /\ mode = "dark"
    /\ documentElement = Markers("dark")

\* C12: with a display context, an instance constructed over an entry that is
\* light or dark up to case starts with that lower-case word as its explicit
\* choice and as its resolved mode, whatever the system preference.
C12_CaseInsensitiveLoad ==
    lastOp = "construct" /\ isBrowser =>
        /\ FoldsTo(entry, S_dark) => modeStore = "dark" /\ mode = "dark"
        /\ FoldsTo(entry, S_light) => modeStore = "light" /\ mode = "light"

\* constructed over 'DARK' under a light system preference: dark
C12_Witness ==
    /\ lastOp = "construct"
    /\ isBrowser
    /\ entry = Str(<< "D", "A", "R", "K" >>)
    /\ prefersStore = "light"
    /\ modeStore = "dark"
    /\ mode = "dark"

\* the initial read, for as long as no event has replaced its result
InitialRead == reported.kind = "read"

\* C13 as claimed: the initial read maps only dark true to dark, only light
\* true to light, neither true to unset and both true to unset.
C13_ReadBothIsUnset ==
    InitialRead =>
        prefersStore =
            IF reported.dark /\ ~reported.light THEN "dark"
            ELSE IF reported.light /\ ~reported.dark THEN "light"
            ELSE undefined

\* C13, amended: the initial read maps dark true to dark whether or not light
\* is true as well (the dark query is tested first), only light true to light
\* and neither true to unset.
C13_ReadDarkFirst ==
    InitialRead =>
        prefersStore =
            IF reported.dark /\ ~reported.light THEN "dark"
            ELSE IF reported.light /\ ~reported.dark THEN "light"
            ELSE IF reported.dark /\ reported.light THEN "dark"
            ELSE undefined

\* both queries matched at construction: the preference held is dark
C13_Witness ==
    /\ lastOp = "construct"
    /\ reported = ReadReported(TRUE, TRUE)
    /\ prefersStore = "dark"
    /\ modeStore = undefined
    /\ mode = "dark"

\* C14: without a display context no listener is registered, no system
\* preference is held whatever the media queries would answer, the getter
\* starts at light and is the explicit choice once one is set, else light; and
\* no step writes localStorage or the root element (a reload leaves the fresh
\* document's element as it found it).
C14_NoDisplayContext ==
    /\ [](~isBrowser =>
            /\ ~listening
            /\ prefersStore = undefined
            /\ lastOp = "construct" => modeStore = undefined /\ mode = "light"
            /\ modeStore # undefined => mode = modeStore
            /\ modeStore = undefined => mode = "light")
    /\ [][~isBrowser =>
            /\ localStorage' = localStorage
            /\ \A el \in FreshElements : Reload(el) => documentElement' = el
            /\ ~(\E el \in FreshElements : Reload(el)) =>
                  documentElement' = documentElement]_vars

\* without a display context toggle() made the choice dark over a store, an
\* element and a dark-matching query that were all left alone
C14_Witness ==
    /\ ~isBrowser
    /\ lastOp = "toggle"
    /\ modeStore = "dark"
    /\ mode = "dark"
    /\ entry = Str(S_light)
    /\ documentElement = [classDark |-> FALSE, colorScheme |-> ""]
    /\ matchesDark
    /\ prefersStore = undefined

\* the mode the environment's last report stands for: the last event's
\* e.matches, else the booleans of the initial read (dark tested first), else
\* nothing, which resolves to light
ReportedMode ==
    IF reported.kind = "event" THEN (IF reported.dark THEN "dark" ELSE "light")
    ELSE IF reported.kind = "read" /\ reported.dark THEN "dark"
    ELSE "light"

\* C15: the setter and toggle() leave the system preference held as it is, and
\* after mode = undefined, whatever calls and notifications came before, the
\* resolved mode and the markers are those of the most recent notification, or
\* of the initial read if there was none.
C15_ResetFollowsLastReport ==
    /\ [](lastOp = "set" /\ lastArg = undefined =>
            /\ mode = ReportedMode
            /\ isBrowser => documentElement = Markers(ReportedMode))
    /\ [][(\E m \in ThemeMode : SetMode(m)) \/ Toggle =>
            prefersStore' = prefersStore]_vars

\* a notification arrived while the choice was light, then the choice was
\* reset: the mode is the dark that was reported meanwhile
C15_Witness ==
    /\ lastOp = "set"
    /\ lastArg = undefined
    /\ prevOp = "change"
    /\ beforePrev.modeStore = "light"
    /\ beforePrev.prefersStore = "light"
    /\ before.modeStore = "light"
    /\ reported = EventReported(TRUE)
    /\ mode = "dark"
    /\ documentElement = Markers("dark")

\* C16: a notification changes neither the explicit choice nor localStorage.
C16_NotificationKeepsChoiceAndEntry ==
    [][\A md \in BOOLEAN, ml \in BOOLEAN :
        PrefersChange(md, ml) =>
            /\ modeStore' = modeStore
            /\ localStorage' = localStorage]_vars

\* a notification made an unset choice resolve to dark; nothing was persisted
C16_Witness ==
    /\ lastOp = "change"
    /\ isBrowser
    /\ before.mode = "light"
    /\ before.modeStore = undefined
    /\ modeStore = undefined
    /\ mode = "dark"
    /\ entry = null

\* C17: with a display context, when a setter or toggle() call has returned the
\* entry is absent or is the mode the markers show, and the two markers agree.
\* (Each call runs to completion as one step: the methods contain no await.)
C17_EntryAgreesWithMarkers ==
    lastOp \in {"set", "toggle"} /\ isBrowser =>
        /\ entry = null \/ entry = Str(StringOf(documentElement.colorScheme))
        /\ documentElement.colorScheme \in {"light", "dark"}
        /\ documentElement.classDark <=> (documentElement.colorScheme = "dark")

\* toggle() right after a notification of dark, the choice having been dark:
\* entry and markers both light
C17_Witness ==
    /\ lastOp = "toggle"
    /\ prevOp = "change"
    /\ isBrowser
    /\ before.modeStore = "dark"
    /\ prefersStore = "dark"
    /\ entry = Str(S_light)
    /\ documentElement = Markers("light")

\* C18: toggle() on an unset choice sets it to dark whatever the system
\* preference held, and the resolved mode is then dark.
C18_ToggleFromUnsetIsDark ==
    lastOp = "toggle" /\ before.modeStore = undefined =>
        /\ before.prefersStore \in ThemeMode
        /\ modeStore = "dark"
        /\ mode = "dark"

\* toggle() on an unset choice over a dark system preference: dark again
C18_Witness ==
    /\ lastOp = "toggle"
    /\ before.modeStore = undefined
    /\ before.prefersStore = "dark"
    /\ before.mode = "dark"
    /\ modeStore = "dark"
    /\ mode = "dark"

\* the mapping of the initial read, as the claim gives it
Rederived(md, ml) ==
    IF md THEN "dark" ELSE IF ml THEN "light" ELSE undefined

\* C19 as claimed: after a notification the system preference held is the one
\* re-derived from the two booleans as at the initial read; unset when neither
\* query matches.
C19_NotificationRederives ==
    [][\A md \in BOOLEAN, ml \in BOOLEAN :
        PrefersChange(md, ml) => prefersStore' = Rederived(md, ml)]_vars

\* C19, amended: after a notification the system preference held is dark if
\* the event reports the dark query matching and light otherwise, never unset;
\* it is the re-derived value whenever one of the queries matches, and light
\* (not unset) when neither does.
C19_NotificationIsDarkOrLight ==
    [][\A md \in BOOLEAN, ml \in BOOLEAN :
        PrefersChange(md, ml) =>
            /\ prefersStore' = IF md THEN "dark" ELSE "light"
            /\ prefersStore' # undefined
            /\ md \/ ml => prefersStore' = Rederived(md, ml)
            /\ ~md /\ ~ml => prefersStore' = "light"]_vars

\* dark stopped matching while light does not match: light is held
C19_Witness ==
    /\ lastOp = "change"
    /\ lastArg = "false"
    /\ before.prefersStore = "dark"
    /\ ~matchesDark
    /\ ~matchesLight
    /\ prefersStore = "light"

\* C20: construction and notifications leave localStorage as it is: a reload,
\* a notification and a silent change of the system preference do not change
\* the entry, so it is the one found at startup until a setter or toggle()
\* call.
C20_ConstructionOnlyReads ==
    [][(\/ \E el \in FreshElements : Reload(el)
        \/ \E md \in BOOLEAN, ml \in BOOLEAN : PrefersChange(md, ml)
        \/ \E md \in BOOLEAN, ml \in BOOLEAN : PrefersChangeSilent(md, ml))
       => localStorage' = localStorage]_vars

\* no setter or toggle() call yet, a reload and a notification later the entry
\* is still the 'DARK' found at startup
C20_Witness ==
    /\ isBrowser
    /\ lastWrite = "none"
    /\ lastOp = "change"
    /\ prevOp = "construct"
    /\ beforePrev # NoSnapshot
    /\ modeStore = "dark"
    /\ entry = Str(<< "D", "A", "R", "K" >>)

\* ---------------------------------------------------------------------------
\* C21

\* a step taken inside the page: any operation but the reload of the page
InstanceStep ==
    \/ \E m \in ThemeMode : SetMode(m)
    \/ Toggle
    \/ \E md, ml \in BOOLEAN : PrefersChange(md, ml)
    \/ \E md, ml \in BOOLEAN : PrefersChangeSilent(md, ml)
    \/ Reimport

\* C21 as the specification states it: the subscription is cancellable.  An
\* instance whose listener is registered has an operation, inside the page,
\* that removes the listener, and an instance replaced by a newly constructed
\* one is no longer changed by a notification.
C21_SubscriptionCancellable ==
    /\ [](listening => ENABLED (InstanceStep /\ ~listening'))
    /\ [][\A md, ml \in BOOLEAN :
            PrefersChange(md, ml) /\ replaced.exists => replaced' = replaced]_vars

\* C21: the subscription is not cancellable.  No operation inside the page
\* removes the listener registered at construction, neither that of the
\* current instance nor that of an instance it replaced; every notification
\* still sets the OsPreference of the replaced instance from e.matches and
\* leaves its ExplicitChoice alone, and because the listener of the current
\* instance runs after it, the DOM markers end the notification showing the
\* resolved mode of the current instance.
C21_NeverUnsubscribed ==
    /\ [][InstanceStep /\ listening => listening']_vars
    /\ [][InstanceStep /\ ~Reimport /\ replaced.listening => replaced'.listening]_vars
    /\ [][Reimport /\ listening => replaced'.listening]_vars
    /\ [][\A md, ml \in BOOLEAN :
            PrefersChange(md, ml) /\ replaced.listening
            => /\ replaced'.prefersStore = (IF md THEN "dark" ELSE "light")
               /\ replaced'.modeStore = replaced.modeStore
               /\ documentElement' = Markers(mode')]_vars

\* C21 witness: an instance that followed a light system preference was
\* replaced by a re-import, and the next notification, e.matches = true, has
\* set the OsPreference of the replaced instance to dark; both listeners are
\* still registered.
C21_Witness ==
    /\ lastOp = "change"
    /\ lastArg = "true"
    /\ prevOp = "construct"
    /\ replaced.exists
    /\ replaced.listening
    /\ listening
    /\ beforePrev.prefersStore = "light"
    /\ replaced.prefersStore = "dark"

\* ---------------------------------------------------------------------------
\* C22

\* C22: applying is idempotent.  A setter call with the argument of the setter
\* call just before it, and a notification with the e.matches of the
\* notification just before it, leave ExplicitChoice, OsPreference, the
\* resolved mode, the DOM markers and the persisted entry as they were.
C22_RepeatIsIdempotent ==
    [][/\ \A m \in ThemeMode :
            SetMode(m) /\ lastOp = "set" /\ lastArg = m
            => progVars' = progVars /\ mode' = mode
       /\ \A md, ml \in BOOLEAN :
            PrefersChange(md, ml) /\ lastOp = "change"
                                  /\ lastArg = (IF md THEN "true" ELSE "false")
            => progVars' = progVars /\ mode' = mode]_vars

\* C22 witness: mode = 'dark' was assigned over a light choice and then
\* assigned again; the choice, the entry and the markers are dark.
C22_Witness ==
    /\ isBrowser
    /\ lastOp = "set"
    /\ prevOp = "set"
    /\ lastArg = "dark"
    /\ beforePrev.modeStore = "light"
    /\ before.modeStore = "dark"
    /\ modeStore = "dark"
    /\ entry = Str(S_dark)
    /\ documentElement = Markers("dark")

====
